---- MODULE Spec2Model ----
(***************************************************************************)
(* Model of the candidate-location recommendation engine of the           *)
(* healthcare-facility-planning backend:                                   *)
(*   backend/routes/recommend.js      POST /api/recommend                  *)
(*   backend/services/llm.js          getRecommendation (Ollama generator) *)
(*                                    getMLRecommendation (classifier)     *)
(*                                                                         *)
(* Units.  Coordinates are integers in 1/300 of a degree, so that the grid *)
(* step (range / 6) and the default sites (range * 0.3, 0.5, 0.7) are      *)
(* exact.  Probabilities are integers in 1/10000; ml_probability, which    *)
(* the code renders with toFixed(3), is in 1/1000.                         *)
(***************************************************************************)
EXTENDS Integers, Sequences, FiniteSets, TLC

(* ------------------------------ bounds --------------------------------- *)

\* The ML service answers the first HotSpan candidates individually and
\* every later candidate with one common answer.
HotSpan == 5

\* Longest Ollama reply (in tokens) a recommend request is served with.
MaxReplyLen == 3

\* Longest reply text (in tokens) the extraction step is applied to on its own.
MaxTextLen == 5

(* --------------------------- configuration ----------------------------- *)

\* process.env at start-up: the two variables recommend.js reads.
Environments ==
    [ML_ENABLED : {"true", "false", "unset"},
     USE_ML_FOR_RECOMMENDATIONS : {"false", "unset"}]

\* recommend.js:9   process.env.ML_ENABLED === "true"
ML_ENABLED(env) == env.ML_ENABLED = "true"

\* The switch is not read.
USE_ML_ignored(env) == TRUE

\* recommend.js:10  process.env.USE_ML_FOR_RECOMMENDATIONS !== "false"
USE_ML_FOR_RECOMMENDATIONS(env) == env.USE_ML_FOR_RECOMMENDATIONS # "false"

\* llm.js:310  generateCandidateLocations(analysis.bounds, 20)
NumCandidates == 20

\* llm.js:326  selectTopLocations(predictions, 3)
NumLocations == 3

\* llm.js:230  data.probability > 0.6
AcceptanceThreshold == 6000

(* ------------------------------ requests ------------------------------- *)

\* Scenario A of the specification: minLat -2.0, maxLat -1.8, minLon 30.0,
\* maxLon 30.2, in 1/300 degree.
ScenarioA == [minLat |-> -600, maxLat |-> -540, minLon |-> 9000, maxLon |-> 9060]

NoBounds == [minLat |-> 0, maxLat |-> 0, minLon |-> 0, maxLon |-> 0]

\* The body of a POST /api/recommend.  present: req.body.analysis is there;
\* districtId: what analysis.districtId is; hasBounds / hasPopulation: whether
\* analysis.bounds / analysis.population are defined.
Analyses ==
    { [present |-> FALSE, districtId |-> "missing", hasBounds |-> FALSE,
       bounds |-> NoBounds, hasPopulation |-> FALSE] }
    \cup
    { [present |-> TRUE, districtId |-> d, hasBounds |-> hb,
       bounds |-> IF hb THEN ScenarioA ELSE NoBounds, hasPopulation |-> hp] :
         d \in {"uuid", "not-a-uuid", "missing"},
         hb \in BOOLEAN, hp \in BOOLEAN }

\* The format test left out: any districtId that is present passes.
uuidRegexTestAny(d) == TRUE

\* recommend.js:21  /^[0-9a-f]{8}-...-[0-9a-f]{12}$/i.test(districtId)
uuidRegexTest(d) == d = "uuid"

(* ------------------------- ML service answers -------------------------- *)

\* What POST /api/predict-from-location answers for one candidate:
\* ok = FALSE is a non-OK status, a network error or an unparsable body.
PredictFail == [ok |-> FALSE, prediction |-> 0, probability |-> 0, confidence |-> "none"]

PredictAnswer(pred, prob, conf) ==
    [ok |-> TRUE, prediction |-> pred, probability |-> prob, confidence |-> conf]

Outcomes ==
    { PredictFail,
      PredictAnswer(0, 9000, "high"),
      PredictAnswer(1, 6000, "medium"),
      PredictAnswer(1, 6004, "medium"),
      PredictAnswer(1, 9000, "high") }

BaseOutcomes ==
    { PredictFail, PredictAnswer(0, 9000, "high"), PredictAnswer(1, 7500, "medium") }

Worlds == [base : BaseOutcomes, hot : [1..HotSpan -> Outcomes]]

NoWorld == [base |-> PredictFail, hot |-> [k \in 1..HotSpan |-> PredictFail]]

\* The answer of the ML service for the k-th candidate of the grid.
AnswerFor(world, k) == IF k <= HotSpan THEN world.hot[k] ELSE world.base

HealthOutcomes ==
    {"network_error", "not_ok", "bad_json", "model_not_loaded", "model_loaded"}

(* --------------------------- mlRecommendation -------------------------- *)

\* Math.ceil(Math.sqrt(n)).  For n < 0 the square root is NaN; every loop
\* test  i <= NaN  is false, as with gridSize 0, and the steps are not used.
CeilSqrt(n) ==
    IF n <= 0 THEN 0
    ELSE CHOOSE g \in 1..n : g * g >= n /\ (g - 1) * (g - 1) < n

\* The loops start on the edge of the box (i, j from 0).
generateCandidateLocationsFromEdge(bounds, numCandidates) ==
    LET gridSize == CeilSqrt(numCandidates)
        latStep  == (bounds.maxLat - bounds.minLat) \div (gridSize + 1)
        lonStep  == (bounds.maxLon - bounds.minLon) \div (gridSize + 1)
    IN  [ k \in 1..(gridSize * gridSize) |->
            LET i == (k - 1) \div gridSize
                j == (k - 1) % gridSize
            IN  [latitude  |-> bounds.minLat + i * latStep,
                 longitude |-> bounds.minLon + j * lonStep] ]

\* llm.js:174-193.  Row-major grid, gridSize + 1 divisions per axis.  The
\* division is exact for the boxes of the model (see Boxes).
generateCandidateLocations(bounds, numCandidates) ==
    LET gridSize == CeilSqrt(numCandidates)
        latStep  == (bounds.maxLat - bounds.minLat) \div (gridSize + 1)
        lonStep  == (bounds.maxLon - bounds.minLon) \div (gridSize + 1)
    IN  [ k \in 1..(gridSize * gridSize) |->
            LET i == ((k - 1) \div gridSize) + 1
                j == ((k - 1) % gridSize) + 1
            IN  [latitude  |-> bounds.minLat + i * latStep,
                 longitude |-> bounds.minLon + j * lonStep] ]

\* The threshold itself counts as suitable.
ScoredCandidateAtLeast(candidate, data) ==
    [latitude    |-> candidate.latitude,
     longitude   |-> candidate.longitude,
     prediction  |-> data.prediction,
     probability |-> data.probability,
     confidence  |-> data.confidence,
     suitable    |-> data.prediction = 1 /\ data.probability >= AcceptanceThreshold]

\* llm.js:225-231: one element of predictions.
ScoredCandidate(candidate, data) ==
    [latitude    |-> candidate.latitude,
     longitude   |-> candidate.longitude,
     prediction  |-> data.prediction,
     probability |-> data.probability,
     confidence  |-> data.confidence,
     suitable    |-> data.prediction = 1 /\ data.probability > AcceptanceThreshold]

\* llm.js:218-221, 232-234: the call for this candidate failed.
CallFailed(call) == ~call.data.ok

CallSucceeded(call) == ~CallFailed(call)

\* The first failed call ends the loop: only the answers before it are kept.
predictCandidateLocationsAborting(candidates, world) ==
    LET failedAt == { k \in 1..Len(candidates) : ~AnswerFor(world, k).ok }
        last     == IF failedAt = {} THEN Len(candidates)
                    ELSE (CHOOSE k \in failedAt : \A j \in failedAt : k <= j) - 1
    IN  [ n \in 1..last |-> ScoredCandidate(candidates[n], AnswerFor(world, n)) ]

\* llm.js:199-238.  A failed call is skipped (continue / caught), the loop
\* goes on; the answers are pushed in candidate order.
predictCandidateLocations(candidates, world) ==
    LET fetched == [ k \in 1..Len(candidates) |->
                      [candidate |-> candidates[k], data |-> AnswerFor(world, k)] ]
        answered == SelectSeq(fetched, CallSucceeded)
    IN  [ n \in 1..Len(answered) |->
            ScoredCandidate(answered[n].candidate, answered[n].data) ]

\* The comparator with its operands swapped: lowest probability first.
ByProbabilityAsc(a, b) == a.probability < b.probability

\* llm.js:256  (a, b) => b.probability - a.probability  is negative, that is
\* the comparator puts a strictly before b.
ByProbabilityDesc(a, b) == a.probability > b.probability

\* llm.js:246  p => p.suitable
IsSuitable(p) == p.suitable

\* Array.prototype.filter, with the predicate of llm.js:246
FilterSuitable(seq) == SelectSeq(seq, IsSuitable)

\* x goes in front of the elements the comparator calls equal to it.
InsertBeforeTies(sorted, x) ==
    LET ahead == Cardinality({ i \in 1..Len(sorted) : ByProbabilityDesc(sorted[i], x) })
    IN  SubSeq(sorted, 1, ahead) \o << x >> \o SubSeq(sorted, ahead + 1, Len(sorted))

\* x goes behind every element of the sorted prefix that the comparator does
\* not put after it.
InsertStable(sorted, x) ==
    LET ahead == Cardinality({ i \in 1..Len(sorted) : ~ByProbabilityDesc(x, sorted[i]) })
    IN  SubSeq(sorted, 1, ahead) \o << x >> \o SubSeq(sorted, ahead + 1, Len(sorted))

\* Array.prototype.sort with the comparator of llm.js:256.  The sort is
\* stable: elements the comparator calls equal keep their order.
RECURSIVE SortByProbability(_)
SortByProbability(seq) ==
    IF seq = << >> THEN << >>
    ELSE InsertStable(SortByProbability(SubSeq(seq, 1, Len(seq) - 1)), seq[Len(seq)])

\* Array.prototype.slice(0, n)
Slice(seq, n) == SubSeq(seq, 1, IF Len(seq) < n THEN Len(seq) ELSE n)

\* The empty case is not checked: an empty list is returned like any other.
selectTopLocationsUnchecked(predictions, numLocations) ==
    [ok |-> TRUE, error |-> "",
     value |-> Slice(SortByProbability(FilterSuitable(predictions)), numLocations)]

\* llm.js:244-260
selectTopLocations(predictions, numLocations) ==
    LET suitableLocations == FilterSuitable(predictions)
    IN  IF Len(suitableLocations) = 0
        THEN [ok |-> FALSE, error |-> "No suitable locations found", value |-> << >>]
        ELSE [ok |-> TRUE, error |-> "",
              value |-> Slice(SortByProbability(suitableLocations),
                              numLocations)]

\* Number.prototype.toFixed(3) of a probability: 1/10000 rounded to 1/1000.
ToFixed3(probability) == (probability + 5) \div 10

\* The fields of one entry of a Recommendation (llm.js:27-34, 273-283).
CoreFields == {"name", "lat", "lon", "type", "justification", "estimated_impact"}

Entry(lat, lon, type, fields, mlProbability) ==
    [lat |-> lat, lon |-> lon, type |-> type, fields |-> fields,
     ml_probability |-> mlProbability]

\* llm.js:270-271  types[index] || "clinic"  (index from 0)
FacilityType(index) == IF index = 0 THEN "health_center" ELSE "clinic"

\* llm.js:265-294
formatMLRecommendations(topLocations) ==
    [hasRecommendations |-> TRUE,
     recommendations |->
        [ n \in 1..Len(topLocations) |->
            Entry(topLocations[n].latitude, topLocations[n].longitude,
                  FacilityType(n - 1),
                  CoreFields \cup {"ml_confidence", "ml_probability"},
                  ToFixed3(topLocations[n].probability)) ],
     summary |-> "ml"]

NoRecommendation ==
    [hasRecommendations |-> FALSE, recommendations |-> << >>, summary |-> "none"]

Threw(message) == [ok |-> FALSE, error |-> message, value |-> NoRecommendation]

Returned(value) == [ok |-> TRUE, error |-> "", value |-> value]

\* The health check's verdict ignored: every answer counts as available.
checkMLAvailabilitySkipped(health) == Returned(NoRecommendation)

\* llm.js:143-168, as called from getMLRecommendation (ML_ENABLED is true
\* there: recommend.js:33 tests the same environment variable).
checkMLAvailability(health) ==
    CASE health = "model_loaded"     -> Returned(NoRecommendation)
      [] health = "not_ok"           ->
            Threw("ML service unavailable: ML service health check failed")
      [] health = "model_not_loaded" ->
            Threw("ML service unavailable: ML model not loaded")
      [] health = "bad_json"         ->
            Threw("ML service unavailable: invalid json response body")
      [] OTHER                       ->
            Threw("ML service unavailable: request failed")

\* llm.js:309-333: what getMLRecommendation does once the health check passed.
scoreAndSelect(analysis, world) ==
    IF ~analysis.hasBounds
    THEN Threw("TypeError: Cannot destructure property 'minLat' of 'bounds'")
    ELSE LET candidates  == generateCandidateLocations(analysis.bounds, NumCandidates)
             predictions == predictCandidateLocations(candidates, world)
             topLocations == selectTopLocations(predictions, NumLocations)
         IN  IF Len(predictions) = 0
             THEN Threw("Could not get ML predictions for any candidate locations")
             ELSE IF ~topLocations.ok THEN Threw(topLocations.error)
             ELSE Returned(formatMLRecommendations(topLocations.value))

\* llm.js:301-339
getMLRecommendation(analysis, health, world) ==
    LET available == checkMLAvailability(health)
    IN  IF ~available.ok THEN available ELSE scoreAndSelect(analysis, world)

(* ------------------------------ generator ------------------------------ *)

\* A reply text of the generation backend is a sequence of tokens:
\*   "{" "}"   brace characters
\*   "w"       prose without braces
\*   "k"       a key of a JSON object whose value is the object that follows
\*   "m.."     a complete member  "recommendations": [ ... ]  (see Payload)
Members == {"m0", "m2", "m3", "m4", "mOut"}

Alphabet == {"{", "}", "w", "k"} \cup Members

SitesInBox ==
    << Entry(-590, 9010, "health_center", CoreFields, -1),
       Entry(-570, 9030, "clinic", CoreFields, -1),
       Entry(-550, 9050, "clinic", CoreFields, -1),
       Entry(-560, 9020, "clinic", CoreFields, -1) >>

\* A site north of maxLat of ScenarioA.
SiteOutOfBox == Entry(-500, 9030, "clinic", CoreFields, -1)

\* The list a member token stands for.
Payload(m) ==
    CASE m = "m0"   -> << >>
      [] m = "m2"   -> SubSeq(SitesInBox, 1, 2)
      [] m = "m3"   -> SubSeq(SitesInBox, 1, 3)
      [] m = "m4"   -> SitesInBox
      [] m = "mOut" -> << SitesInBox[1], SiteOutOfBox, SitesInBox[3] >>

RECURSIVE MembersEnd(_, _)
\* s[i..] continues an object after its opening brace: the index of the brace
\* that closes it, 0 when the text is not a well-formed object.
MembersEnd(s, i) ==
    IF i > Len(s) THEN 0
    ELSE IF s[i] = "}" THEN i
    ELSE IF s[i] \in Members THEN MembersEnd(s, i + 1)
    ELSE IF s[i] = "k" /\ i + 1 <= Len(s) /\ s[i + 1] = "{"
         THEN LET e == MembersEnd(s, i + 2)
              IN  IF e = 0 THEN 0 ELSE MembersEnd(s, e + 1)
    ELSE 0

\* The index where the well-formed object starting at s[i] ends, 0 if none.
ObjectEnd(s, i) == IF i <= Len(s) /\ s[i] = "{" THEN MembersEnd(s, i + 1) ELSE 0

RECURSIVE TopMember(_, _, _)
\* The last top-level "recommendations" member of the well-formed object s
\* (JSON.parse keeps the last of duplicate keys), "none" when it has none.
TopMember(s, i, found) ==
    IF i > Len(s) \/ s[i] = "}" THEN found
    ELSE IF s[i] \in Members THEN TopMember(s, i + 1, s[i])
    ELSE TopMember(s, MembersEnd(s, i + 2) + 1, found)

\* JSON.parse of a text that starts with a brace.
JSONParse(s) ==
    IF ObjectEnd(s, 1) = Len(s) /\ Len(s) > 0
    THEN LET m == TopMember(s, 2, "none")
         IN  Returned([hasRecommendations |-> m # "none",
                       recommendations |-> IF m = "none" THEN << >> ELSE Payload(m),
                       summary |-> "generated"])
    ELSE Threw("SyntaxError: Unexpected token in JSON")

Braces(s, b) == { i \in 1..Len(s) : s[i] = b }

Min(S) == CHOOSE x \in S : \A y \in S : x <= y

Max(S) == CHOOSE x \in S : \A y \in S : x >= y

\* llm.js:58  jsonStr.match(/\{[\s\S]*\}/): from the first opening brace to
\* the last closing brace after it; << >> when there is no match.
jsonMatch(jsonStr) ==
    LET open  == Braces(jsonStr, "{")
        close == Braces(jsonStr, "}")
    IN  IF open = {} \/ close = {} \/ Max(close) < Min(open) THEN << >>
        ELSE SubSeq(jsonStr, Min(open), Max(close))

\* bounds.min + (bounds.max - bounds.min) * (tenths / 10)
Fraction(min, max, tenths) == min + ((max - min) * tenths) \div 10

\* llm.js:60-88 and 96-124: the three built-in sites.  summary tells the two
\* copies apart.
DefaultRecommendation(bounds, summary) ==
    [hasRecommendations |-> TRUE,
     recommendations |->
       << Entry(Fraction(bounds.minLat, bounds.maxLat, 3),
                Fraction(bounds.minLon, bounds.maxLon, 3),
                "health_center", CoreFields, -1),
          Entry(Fraction(bounds.minLat, bounds.maxLat, 5),
                Fraction(bounds.minLon, bounds.maxLon, 7),
                "clinic", CoreFields, -1),
          Entry(Fraction(bounds.minLat, bounds.maxLat, 7),
                Fraction(bounds.minLon, bounds.maxLon, 5),
                "clinic", CoreFields, -1) >>,
     summary |-> summary]

\* llm.js:56-92: the extraction step, inside the try block.
extractRecommendation(jsonStr, bounds) ==
    LET matched == jsonMatch(jsonStr)
    IN  IF matched = << >> THEN Returned(DefaultRecommendation(bounds, "default-no-json"))
        ELSE JSONParse(matched)

\* What the generation backend does with one request.
TextReply(text) == [kind |-> "text", text |-> text]

FailedReply(kind) == [kind |-> kind, text |-> << >>]

ReplyFailures == {"network_error", "not_ok", "bad_json", "no_response_field"}

\* llm.js:6-126
getRecommendation(analysis, reply) ==
    IF ~analysis.hasPopulation
    THEN Threw("TypeError: Cannot read properties of undefined (reading 'toLocaleString')")
    ELSE IF ~analysis.hasBounds
    THEN Threw("TypeError: Cannot read properties of undefined (reading 'minLat')")
    ELSE LET tried == IF reply.kind = "text"
                      THEN extractRecommendation(reply.text, analysis.bounds)
                      ELSE Threw(reply.kind)
         IN  IF tried.ok THEN tried
             ELSE Returned(DefaultRecommendation(analysis.bounds, "default-on-error"))

(* ------------------------- POST /api/recommend ------------------------- *)

VARIABLES
    env,                     \* process.env, read once at start-up
    pc,                      \* where the handler of the request is
    analysis,                \* req.body.analysis
    mlError,                 \* mlError.message of recommend.js:39, "" if none
    healthReply,             \* what GET /health answered, "none" before
    mlWorld,                 \* what the ML service answered per candidate while the
                             \* classifier pathway produced recommendationResponse
    mlSeen,                  \* how many candidates the ML service answered, and for
                             \* how many it answered prediction 1 above the threshold
    llmReply,                \* kind of the backend's answer to getRecommendation
    jsonStr,                 \* data.response, when the extraction step runs alone
    extracted,               \* what getRecommendation then settled with
    recommendationResponse,  \* recommend.js:29
    recommendationMethod,    \* recommend.js:30
    inserted,                \* rows handed to supabase.from("recommendations").insert
    recommendations,         \* rows of the recommendations table
    response,                \* what res.status(..).json(..) sent
    calls                    \* how often each pathway was called

\* getMLRecommendation, llm.js:309-326, step by step.
VARIABLES
    predictions,             \* llm.js:310  what predictCandidateLocations returned
    topLocations             \* llm.js:326  what selectTopLocations settled with

\* generateCandidateLocations called on its own.
VARIABLES
    candidateCount,          \* llm.js:174  numCandidates
    candidates               \* llm.js:192  what the call settled with

\* POST /api/ml/predict (backend/routes/ml.js).
VARIABLES
    features,                \* ml.js:130  req.body.features
    forwarded,               \* ml.js:138  the feature vectors sent on to the ML service
    predictResponse          \* what res.status(..).json(..) sent

\* The signup workflow: POST /api/users/approve and /api/users/reject
\* (the users router) and the rejectUser handler of the frontend.
VARIABLES
    signup_requests,         \* status of each row of the signup_requests table
    authUsers,               \* signup requests whose email has an auth user (invited)
    user_profiles,           \* signup requests whose user has a row in user_profiles
    supabaseAdmin,           \* whether SUPABASE_SERVICE_ROLE_KEY is configured
    handlers,                \* the calls of the users router in progress or answered
    started,                 \* how many calls were made
    invitations,             \* how many invitation emails each request's address got
    changedBy                \* the tokens on whose behalf a status was written or
                             \* an invitation sent ("none": no token was read)

\* Everything of a recommend request but the position of its handler.
requestVars == << env, analysis, mlError, healthReply, mlWorld, mlSeen, llmReply,
                  jsonStr, extracted, recommendationResponse, recommendationMethod,
                  inserted, recommendations, response, calls >>

selectionVars == << predictions, topLocations >>

gridVars == << candidateCount, candidates >>

predictVars == << features, forwarded, predictResponse >>

signupVars == << signup_requests, authUsers, user_profiles, supabaseAdmin, handlers,
                 started, invitations, changedBy >>

vars == << pc, requestVars, selectionVars, gridVars, predictVars, signupVars >>

\* The variables the handler of POST /api/recommend does not touch.
outsideRecommend == << selectionVars, gridVars, predictVars, signupVars >>

\* The variables the steps of getMLRecommendation do not touch.
outsideSelection == << requestVars, gridVars, predictVars, signupVars >>

\* The variables a call of generateCandidateLocations does not touch.
outsideGrid == << requestVars, selectionVars, predictVars, signupVars >>

\* The variables the handler of POST /api/ml/predict does not touch.
outsidePredict == << requestVars, selectionVars, gridVars, signupVars >>

\* The variables the signup workflow does not touch.
outsideSignup == << pc, requestVars, selectionVars, gridVars, predictVars >>

NotSelected == [ok |-> FALSE, error |-> "not run", value |-> << >>]

SelectionIdle == predictions = << >> /\ topLocations = NotSelected

NotGenerated == [ok |-> FALSE, error |-> "not run", value |-> << >>]

GridIdle == candidateCount = NumCandidates /\ candidates = NotGenerated

\* req.body without a features member.
NoFeatures == [kind |-> "undefined", value |-> << >>]

\* res.status(status).json({ error })  or  res.json(data)
PredictResponse(status, error, data) == [status |-> status, error |-> error, data |-> data]

NotAnswered == PredictResponse(0, "", "none")

PredictIdle == features = NoFeatures /\ forwarded = << >> /\ predictResponse = NotAnswered

\* The rows of signup_requests, by id.
SignupIds == {"r1"}

\* The two calls of the users router that can be in progress together.
Handlers == {"h1", "h2"}

IdleHandler ==
    [op |-> "none", pc |-> "idle", requestId |-> "missing", adminToken |-> "missing",
     status |-> 0]

\* 20251106000000_create_signup_requests_table.sql:  status text DEFAULT 'pending'
SignupIdle ==
    /\ signup_requests = [id \in SignupIds |-> "pending"]
    /\ authUsers = {}
    /\ user_profiles = {}
    /\ supabaseAdmin = TRUE
    /\ handlers = [h \in Handlers |-> IdleHandler]
    /\ started = 0
    /\ invitations = [id \in SignupIds |-> 0]
    /\ changedBy = {}

NoAnalysis ==
    [present |-> FALSE, districtId |-> "missing", hasBounds |-> FALSE,
     bounds |-> NoBounds, hasPopulation |-> FALSE]

NoResponse ==
    [status |-> 0, success |-> FALSE, error |-> "", ml_error |-> "",
     llm_error |-> "", recommendation |-> NoRecommendation, method |-> ""]

\* res.status(status).json({ error, details: { ml_error, llm_error } })
ErrorResponse(status, error, ml, llm) ==
    [status |-> status, success |-> FALSE, error |-> error, ml_error |-> ml,
     llm_error |-> llm, recommendation |-> NoRecommendation, method |-> ""]

\* recommend.js:78-83
SuccessResponse(recommendation, method) ==
    [status |-> 200, success |-> TRUE, error |-> "", ml_error |-> "",
     llm_error |-> "", recommendation |-> recommendation, method |-> method]

\* The method left out of the insert: the column takes its default 'llm'
\* (20251110000000_add_recommendation_method_column.sql:7).
RowUntagged(a, recommendation, method) ==
    [district_id |-> a.districtId, analysis_input |-> a,
     recommendation_output |-> recommendation, recommendation_method |-> "llm"]

\* recommend.js:66-72
Row(a, recommendation, method) ==
    [district_id |-> a.districtId, analysis_input |-> a,
     recommendation_output |-> recommendation, recommendation_method |-> method]

\* 20251110000000_add_recommendation_method_column.sql:6
RecommendationMethods == {"ml", "llm", "llm-fallback"}

NothingSeen == [answered |-> 0, suitable |-> 0]

NotExtracted == Threw("not run")

\* The candidates of the request's grid the ML service answers, and those it
\* answers with prediction 1 and a probability above the threshold.
Answered(world) ==
    { k \in 1..(CeilSqrt(NumCandidates) * CeilSqrt(NumCandidates)) : AnswerFor(world, k).ok }

Accepted(world) ==
    { k \in Answered(world) :
        /\ AnswerFor(world, k).prediction = 1
        /\ AnswerFor(world, k).probability > 6000 }

Seen(world) ==
    [answered |-> Cardinality(Answered(world)), suitable |-> Cardinality(Accepted(world))]

\* The fallback forgets to retag its result.
MethodAlwaysLlm(mlErr) == "llm"

\* recommend.js:30, 46, 62: the tag of a generator result.
MethodOfGenerator(mlErr) == IF mlErr # "" THEN "llm-fallback" ELSE "llm"

Init ==
    /\ env \in Environments
    /\ pc = "idle"
    /\ analysis = NoAnalysis
    /\ mlError = ""
    /\ healthReply = "none"
    /\ mlWorld = NoWorld
    /\ mlSeen = NothingSeen
    /\ jsonStr = << >>
    /\ extracted = NotExtracted
    /\ llmReply = "none"
    /\ recommendationResponse = NoRecommendation
    /\ recommendationMethod = ""
    /\ inserted = << >>
    /\ recommendations = << >>
    /\ response = NoResponse
    /\ calls = [ml |-> 0, llm |-> 0]
    /\ SelectionIdle
    /\ GridIdle
    /\ PredictIdle
    /\ SignupIdle

\* recommend.js:33
ClassifierEnabled == ML_ENABLED(env) /\ USE_ML_FOR_RECOMMENDATIONS(env)

\* recommend.js:65-72: the pathway produced a result; the insert is issued.
Produced(value, method) ==
    /\ recommendationResponse' = value
    /\ recommendationMethod' = method
    /\ inserted' = Append(inserted, Row(analysis, value, method))
    /\ pc' = "storing"
    /\ UNCHANGED << recommendations, response >>

\* The request ends with an error response.
Failed(status, error, ml, llm) ==
    /\ response' = ErrorResponse(status, error, ml, llm)
    /\ pc' = "done"
    /\ UNCHANGED << recommendationResponse, recommendationMethod, inserted,
                    recommendations >>

\* recommend.js:12-36, 59-61: the request arrives, is validated and the
\* first pathway is called.
PostRecommend(a) ==
    /\ pc = "idle"
    /\ analysis' = a
    /\ IF ~a.present
       THEN /\ response' = ErrorResponse(400, "Analysis data required", "", "")
            /\ pc' = "done"
            /\ UNCHANGED << recommendationMethod, calls >>
       ELSE IF a.districtId = "missing" \/ ~uuidRegexTest(a.districtId)
       THEN /\ response' = ErrorResponse(400, "Invalid district ID", "", "")
            /\ pc' = "done"
            /\ UNCHANGED << recommendationMethod, calls >>
       ELSE /\ recommendationMethod' = "llm"
            /\ UNCHANGED response
            /\ IF ClassifierEnabled
               THEN pc' = "ml" /\ calls' = [calls EXCEPT !.ml = @ + 1]
               ELSE pc' = "llm" /\ calls' = [calls EXCEPT !.llm = @ + 1]
    /\ UNCHANGED << env, mlError, healthReply, mlWorld, mlSeen, llmReply, jsonStr,
                    extracted, recommendationResponse, inserted, recommendations >>
    /\ UNCHANGED outsideRecommend

\* The else branch of recommend.js:58-63 run unconditionally: the generator
\* is called after the classifier pathway whatever its outcome.
MLRecommendationFallsThrough(health, world) ==
    /\ pc = "ml"
    /\ healthReply' = health
    /\ mlSeen' = IF health = "model_loaded" /\ analysis.hasBounds
                 THEN Seen(world) ELSE NothingSeen
    /\ \E result \in { getMLRecommendation(analysis, health, world) } :
           /\ mlError' = result.error
           /\ mlWorld' = IF result.ok THEN world ELSE NoWorld
           /\ recommendationResponse' =
                 IF result.ok THEN result.value ELSE recommendationResponse
           /\ recommendationMethod' =
                 IF result.ok THEN "ml" ELSE recommendationMethod
    /\ pc' = "llm"
    /\ calls' = [calls EXCEPT !.llm = @ + 1]
    /\ UNCHANGED << inserted, recommendations, response >>
    /\ UNCHANGED << env, analysis, llmReply, jsonStr, extracted >>
    /\ UNCHANGED outsideRecommend

\* recommend.js:36-45: getMLRecommendation settles.  On success the result is
\* tagged "ml"; on any error the generator is called as the fallback.
MLRecommendation(health, world) ==
    /\ pc = "ml"
    /\ healthReply' = health
    /\ mlSeen' = IF health = "model_loaded" /\ analysis.hasBounds
                 THEN Seen(world) ELSE NothingSeen
    /\ \E result \in { getMLRecommendation(analysis, health, world) } :
           IF result.ok
           THEN /\ Produced(result.value, "ml")
                /\ mlWorld' = world
                /\ UNCHANGED << mlError, calls >>
           ELSE /\ mlError' = result.error
                /\ mlWorld' = NoWorld
                /\ pc' = "llm"
                /\ calls' = [calls EXCEPT !.llm = @ + 1]
                /\ UNCHANGED << recommendationResponse, recommendationMethod,
                                inserted, recommendations, response >>
    /\ UNCHANGED << env, analysis, llmReply, jsonStr, extracted >>
    /\ UNCHANGED outsideRecommend

\* recommend.js:44-63, 84-87: getRecommendation settles.
Recommendation(reply) ==
    /\ pc = "llm"
    /\ llmReply' = IF analysis.hasPopulation /\ analysis.hasBounds
                   THEN reply.kind ELSE "not called"
    /\ \E result \in { getRecommendation(analysis, reply) } :
           IF result.ok
           THEN Produced(result.value, MethodOfGenerator(mlError))
           ELSE IF mlError # ""
           THEN Failed(503, "Failed to generate recommendations", mlError, result.error)
           ELSE Failed(500, result.error, "", "")
    /\ UNCHANGED << env, analysis, mlError, healthReply, mlWorld, mlSeen, jsonStr,
                    extracted, calls >>
    /\ UNCHANGED outsideRecommend

\* A storage error is thrown on to the catch block, which answers 500.
StoredOrFailed(storageError) ==
    /\ pc = "storing"
    /\ recommendations' =
         IF storageError THEN recommendations
         ELSE Append(recommendations, inserted[Len(inserted)])
    /\ response' =
         IF storageError THEN ErrorResponse(500, "storage failed", "", "")
         ELSE SuccessResponse(recommendationResponse, recommendationMethod)
    /\ pc' = "done"
    /\ UNCHANGED << env, analysis, mlError, healthReply, mlWorld, mlSeen, llmReply,
                    jsonStr, extracted, recommendationResponse,
                    recommendationMethod, inserted, calls >>
    /\ UNCHANGED outsideRecommend

\* recommend.js:66-83: the insert settles; a storage error is logged and the
\* success response is sent either way.
Stored(storageError) ==
    /\ pc = "storing"
    /\ recommendations' =
         IF storageError THEN recommendations
         ELSE Append(recommendations, inserted[Len(inserted)])
    /\ response' = SuccessResponse(recommendationResponse, recommendationMethod)
    /\ pc' = "done"
    /\ UNCHANGED << env, analysis, mlError, healthReply, mlWorld, mlSeen, llmReply,
                    jsonStr, extracted, recommendationResponse,
                    recommendationMethod, inserted, calls >>
    /\ UNCHANGED outsideRecommend

RECURSIVE TextsOfLen(_, _)
TextsOfLen(n, alphabet) ==
    IF n = 0 THEN { << >> }
    ELSE { Append(t, c) : t \in TextsOfLen(n - 1, alphabet), c \in alphabet }

RECURSIVE TextsUpTo(_, _)
TextsUpTo(n, alphabet) ==
    IF n = 0 THEN TextsOfLen(0, alphabet)
    ELSE TextsOfLen(n, alphabet) \cup TextsUpTo(n - 1, alphabet)

Replies ==
    { FailedReply(k) : k \in ReplyFailures } \cup
    { TextReply(t) : t \in TextsUpTo(MaxReplyLen, Alphabet) }

Next ==
    \/ pc = "idle" /\ \E a \in Analyses : PostRecommend(a)
    \/ pc = "ml" /\ \E health \in HealthOutcomes \ {"model_loaded"} :
                        MLRecommendation(health, NoWorld)
    \/ pc = "ml" /\ \E world \in Worlds : MLRecommendation("model_loaded", world)
    \/ pc = "llm" /\ \E reply \in Replies : Recommendation(reply)
    \/ pc = "storing" /\ \E storageError \in BOOLEAN : Stored(storageError)

Spec == Init /\ [][Next]_vars

\* The worlds in which the first HotSpan candidates all get the same answer.
UniformWorlds ==
    { [base |-> b, hot |-> [k \in 1..HotSpan |-> h]] :
        b \in BaseOutcomes, h \in Outcomes }

\* llm.js:149-152, 208-213: the health check carries timeout 5000 and each
\* prediction timeout 30000, so getMLRecommendation settles even when the
\* classifier service never answers: the pending call ends as a network error.
ClassifierSettles ==
    \/ pc = "ml" /\ \E health \in HealthOutcomes \ {"model_loaded"} :
                        MLRecommendation(health, NoWorld)
    \/ pc = "ml" /\ \E world \in UniformWorlds :
                        MLRecommendation("model_loaded", world)

NextLive ==
    \/ pc = "idle" /\ \E a \in Analyses : PostRecommend(a)
    \/ ClassifierSettles
    \/ pc = "llm" /\ \E reply \in Replies : Recommendation(reply)
    \/ pc = "storing" /\ \E storageError \in BOOLEAN : Stored(storageError)

\* The request handler under the progress its code guarantees.  The fetch to
\* the generator (llm.js:40-48) and the awaited insert (recommend.js:66-72)
\* carry no timeout: nothing obliges Recommendation or Stored to happen, and
\* the handler stays at its await for as long as the collaborator is silent.
SpecLive == Init /\ [][NextLive]_vars /\ WF_vars(ClassifierSettles)

(* -------------------- the extraction step on its own ------------------- *)

\* A complete analysis, as POST /api/analyze produces it.
FullAnalysis ==
    [present |-> TRUE, districtId |-> "uuid", hasBounds |-> TRUE,
     bounds |-> ScenarioA, hasPopulation |-> TRUE]

ExtractAlphabet == {"{", "}", "w", "k", "m0", "m3"}

\* getRecommendation is about to read data.response (llm.js:56).
InitExtract ==
    /\ env \in { e \in Environments : e.ML_ENABLED = "false"
                                       /\ e.USE_ML_FOR_RECOMMENDATIONS = "unset" }
    /\ pc = "extract"
    /\ analysis = FullAnalysis
    /\ jsonStr \in TextsUpTo(MaxTextLen, ExtractAlphabet)
    /\ extracted = NotExtracted
    /\ mlError = ""
    /\ healthReply = "none"
    /\ mlWorld = NoWorld
    /\ mlSeen = NothingSeen
    /\ llmReply = "text"
    /\ recommendationResponse = NoRecommendation
    /\ recommendationMethod = "llm"
    /\ inserted = << >>
    /\ recommendations = << >>
    /\ response = NoResponse
    /\ calls = [ml |-> 0, llm |-> 1]
    /\ SelectionIdle
    /\ GridIdle
    /\ PredictIdle
    /\ SignupIdle

\* llm.js:56-125: getRecommendation settles for the reply text jsonStr.
Extract ==
    /\ pc = "extract"
    /\ extracted' = getRecommendation(analysis, TextReply(jsonStr))
    /\ pc' = "extracted"
    /\ UNCHANGED << env, analysis, mlError, healthReply, mlWorld, mlSeen, llmReply,
                    jsonStr, recommendationResponse, recommendationMethod,
                    inserted, recommendations, response, calls >>
    /\ UNCHANGED outsideRecommend

NextExtract == Extract

SpecExtract == InitExtract /\ [][NextExtract]_vars

(* ------------------ getMLRecommendation, step by step ------------------ *)

\* getMLRecommendation has been called (llm.js:301); the ML service would
\* answer the candidates of the request as mlWorld says.
InitSelect ==
    /\ env \in { e \in Environments : e.ML_ENABLED = "true"
                                       /\ e.USE_ML_FOR_RECOMMENDATIONS = "unset" }
    /\ pc = "health"
    /\ analysis = FullAnalysis
    /\ mlWorld \in Worlds
    /\ mlError = ""
    /\ healthReply = "none"
    /\ mlSeen = NothingSeen
    /\ llmReply = "none"
    /\ jsonStr = << >>
    /\ extracted = NotExtracted
    /\ recommendationResponse = NoRecommendation
    /\ recommendationMethod = "llm"
    /\ inserted = << >>
    /\ recommendations = << >>
    /\ response = NoResponse
    /\ calls = [ml |-> 1, llm |-> 0]
    /\ SelectionIdle
    /\ GridIdle
    /\ PredictIdle
    /\ SignupIdle

\* llm.js:304-307: the health check settles.  When it throws,
\* getMLRecommendation rethrows (llm.js:335-338) and does nothing else.
CheckAvailability(health) ==
    /\ pc = "health"
    /\ healthReply' = health
    /\ \E available \in { checkMLAvailability(health) } :
           IF available.ok
           THEN pc' = "score" /\ UNCHANGED mlError
           ELSE pc' = "unavailable" /\ mlError' = available.error
    /\ UNCHANGED << env, analysis, mlWorld, mlSeen, llmReply, jsonStr, extracted,
                    recommendationResponse, recommendationMethod, inserted,
                    recommendations, response, calls >>
    /\ UNCHANGED << selectionVars, gridVars, predictVars, signupVars >>

\* llm.js:310-316: the grid is generated and every candidate is scored; with
\* no prediction at all getMLRecommendation throws before selecting.
ScoreCandidates ==
    /\ pc = "score"
    /\ predictions' =
          predictCandidateLocations(
              generateCandidateLocations(analysis.bounds, NumCandidates), mlWorld)
    /\ candidates' =
          Returned(generateCandidateLocations(analysis.bounds, NumCandidates))
    /\ pc' = IF Len(predictions') = 0 THEN "no predictions" ELSE "select"
    /\ UNCHANGED << topLocations, candidateCount, requestVars, predictVars,
                    signupVars >>

\* llm.js:326
SelectTop ==
    /\ pc = "select"
    /\ topLocations' = selectTopLocations(predictions, NumLocations)
    /\ pc' = "selected"
    /\ UNCHANGED << predictions, outsideSelection >>

NextSelect ==
    \/ pc = "health" /\ \E health \in HealthOutcomes : CheckAvailability(health)
    \/ ScoreCandidates
    \/ SelectTop

SpecSelect == InitSelect /\ [][NextSelect]_vars

(* ------------------ generateCandidateLocations alone ------------------- *)

\* Largest number of candidates asked for.
MaxCount == 16

Box(minLat, maxLat, minLon, maxLon) ==
    [minLat |-> minLat, maxLat |-> maxLat, minLon |-> minLon, maxLon |-> maxLon]

\* Bounding boxes in 1/300 degree.  Every range is a multiple of 60, so the
\* steps  range / (gridSize + 1)  are whole for every gridSize up to 5.  The
\* first four have min < max on both axes, the others have not.
Boxes ==
    { ScenarioA,
      Box(-600, -480, 9000, 9060),
      Box(-60, 60, -120, 0),
      Box(0, 60, 0, 180),
      Box(-600, -600, 9000, 9060),
      Box(-540, -600, 9000, 9060),
      Box(-600, -540, 9060, 9060),
      Box(-600, -540, 9060, 9000),
      Box(-540, -600, 9060, 9000) }

Counts == {-1} \cup 0..MaxCount

\* generateCandidateLocations is about to be called with analysis.bounds and
\* candidateCount.
InitGrid ==
    /\ env \in { e \in Environments : e.ML_ENABLED = "true"
                                       /\ e.USE_ML_FOR_RECOMMENDATIONS = "unset" }
    /\ pc = "grid"
    /\ analysis \in { [FullAnalysis EXCEPT !.bounds = b] : b \in Boxes }
    /\ candidateCount \in Counts
    /\ candidates = NotGenerated
    /\ mlWorld = NoWorld
    /\ mlError = ""
    /\ healthReply = "model_loaded"
    /\ mlSeen = NothingSeen
    /\ llmReply = "none"
    /\ jsonStr = << >>
    /\ extracted = NotExtracted
    /\ recommendationResponse = NoRecommendation
    /\ recommendationMethod = "llm"
    /\ inserted = << >>
    /\ recommendations = << >>
    /\ response = NoResponse
    /\ calls = [ml |-> 1, llm |-> 0]
    /\ SelectionIdle
    /\ PredictIdle
    /\ SignupIdle

\* llm.js:174-193: the call returns; the function has no throw statement.
Generate ==
    /\ pc = "grid"
    /\ candidates' =
          [ok |-> TRUE, error |-> "",
           value |-> generateCandidateLocations(analysis.bounds, candidateCount)]
    /\ pc' = "generated"
    /\ UNCHANGED << candidateCount, outsideGrid >>

NextGrid == Generate

SpecGrid == InitGrid /\ [][NextGrid]_vars

(* ------------------------- POST /api/ml/predict ------------------------ *)

\* Longest features value a request carries.
MaxFeatures == 13

\* ml.js:132  features.length !== 12
FeatureCount == 12

\* req.body.features: absent, or an array, a string or an object with a
\* length property, of 0..MaxFeatures items.  The items are told apart so
\* that a changed vector differs from the one received.
FeatureBodies ==
    { NoFeatures } \cup
    { [kind |-> k, value |-> [n \in 1..len |-> n]] :
        k \in {"array", "string", "object"}, len \in 0..MaxFeatures }

\* ml.js:132  !features  (undefined and the empty string are falsy)
Falsy(f) == f.kind = "undefined" \/ (f.kind = "string" /\ Len(f.value) = 0)

\* ml.js:132  Array.isArray(features)
IsArray(f) == f.kind = "array"

\* Only a vector that is too short is turned down.
InvalidFeaturesTooShort(f) == Falsy(f) \/ ~IsArray(f) \/ Len(f.value) < FeatureCount

\* ml.js:132
InvalidFeatures(f) == Falsy(f) \/ ~IsArray(f) \/ Len(f.value) # FeatureCount

\* ml.js:57-69: how fetch and response.json() of proxyToMLService end.
ProxyOutcomes == {"network_error", "bad_json", "not_ok", "ok"}

\* A request has arrived at POST /api/ml/predict.
InitPredict ==
    /\ env \in { e \in Environments : e.USE_ML_FOR_RECOMMENDATIONS = "unset" }
    /\ pc = "predict"
    /\ features \in FeatureBodies
    /\ forwarded = << >>
    /\ predictResponse = NotAnswered
    /\ analysis = NoAnalysis
    /\ mlWorld = NoWorld
    /\ mlError = ""
    /\ healthReply = "none"
    /\ mlSeen = NothingSeen
    /\ llmReply = "none"
    /\ jsonStr = << >>
    /\ extracted = NotExtracted
    /\ recommendationResponse = NoRecommendation
    /\ recommendationMethod = ""
    /\ inserted = << >>
    /\ recommendations = << >>
    /\ response = NoResponse
    /\ calls = [ml |-> 0, llm |-> 0]
    /\ SelectionIdle
    /\ GridIdle
    /\ SignupIdle

\* ml.js:122-138: the configuration and the body are checked; a valid vector
\* is sent on as it is.
PostPredict ==
    /\ pc = "predict"
    /\ IF ~ML_ENABLED(env)
       THEN /\ predictResponse' = PredictResponse(503, "ML service is not enabled", "none")
            /\ pc' = "answered"
            /\ UNCHANGED forwarded
       ELSE IF InvalidFeatures(features)
       THEN /\ predictResponse' =
                  PredictResponse(400, "Provide 'features' array with exactly 12 values",
                                  "none")
            /\ pc' = "answered"
            /\ UNCHANGED forwarded
       ELSE /\ forwarded' = Append(forwarded, features.value)
            /\ pc' = "proxy"
            /\ UNCHANGED predictResponse
    /\ UNCHANGED << features, outsidePredict >>

\* ml.js:57-69, 140-144: the ML service answered, or the call failed.
ProxySettled(outcome) ==
    /\ pc = "proxy"
    /\ predictResponse' =
          IF outcome = "ok" THEN PredictResponse(200, "", "prediction")
          ELSE PredictResponse(503, outcome, "none")
    /\ pc' = "answered"
    /\ UNCHANGED << features, forwarded, outsidePredict >>

NextPredict ==
    \/ PostPredict
    \/ pc = "proxy" /\ \E outcome \in ProxyOutcomes : ProxySettled(outcome)

SpecPredict == InitPredict /\ [][NextPredict]_vars

(* --------------------------- signup workflow --------------------------- *)

\* Most calls made to the signup handlers in one behaviour.
MaxCalls == 3

\* req.body.requestId: a row of the table, an id of no row, or absent.
RequestIdsSent == SignupIds \cup {"r0", "missing"}

\* req.body.adminToken: the token of an admin, of a user who is no admin, a
\* token supabase.auth.getUser turns down, or absent.
AdminTokens == {"admin", "user", "invalid", "missing"}

Respond(h, status) == [handlers EXCEPT ![h].pc = "answered", ![h].status = status]

At(h, label) == [handlers EXCEPT ![h].pc = label]

\* part_012:9-33 and 127-151: the body is checked, the token is resolved and
\* the caller's is_admin flag is read.
AuthorizationStatus(requestId, adminToken) ==
    IF requestId = "missing" \/ adminToken = "missing" THEN 400
    ELSE IF adminToken = "invalid" THEN 401
    ELSE IF adminToken = "user" THEN 403
    ELSE 200

InitSignup ==
    /\ pc = "signup"
    /\ signup_requests = [id \in SignupIds |-> "pending"]
    /\ authUsers = {}
    /\ user_profiles = {}
    /\ supabaseAdmin \in BOOLEAN
    /\ handlers = [h \in Handlers |-> IdleHandler]
    /\ started = 0
    /\ invitations = [id \in SignupIds |-> 0]
    /\ changedBy = {}
    /\ env \in { e \in Environments : e.ML_ENABLED = "false"
                                       /\ e.USE_ML_FOR_RECOMMENDATIONS = "unset" }
    /\ analysis = NoAnalysis
    /\ mlWorld = NoWorld
    /\ mlError = ""
    /\ healthReply = "none"
    /\ mlSeen = NothingSeen
    /\ llmReply = "none"
    /\ jsonStr = << >>
    /\ extracted = NotExtracted
    /\ recommendationResponse = NoRecommendation
    /\ recommendationMethod = ""
    /\ inserted = << >>
    /\ recommendations = << >>
    /\ response = NoResponse
    /\ calls = [ml |-> 0, llm |-> 0]
    /\ SelectionIdle
    /\ GridIdle
    /\ PredictIdle

\* part_012:7-33, 125-151: POST /api/users/approve or /reject arrives and is
\* authorized.
PostUsers(h, op, requestId, adminToken) ==
    /\ handlers[h].pc \in {"idle", "answered"}
    /\ started < MaxCalls
    /\ started' = started + 1
    /\ LET status == AuthorizationStatus(requestId, adminToken)
           arrived == [op |-> op, pc |-> "authorized", requestId |-> requestId,
                       adminToken |-> adminToken, status |-> 0]
       IN  handlers' =
             IF status # 200
             THEN [handlers EXCEPT ![h] = [arrived EXCEPT !.pc = "answered",
                                                          !.status = status]]
             ELSE [handlers EXCEPT ![h] =
                      [arrived EXCEPT !.pc = IF op = "approve" THEN "fetch"
                                             ELSE "update"]]
    /\ UNCHANGED << signup_requests, authUsers, user_profiles, supabaseAdmin,
                    invitations, changedBy, outsideSignup >>

\* part_012:36-57: approve reads the row and goes on only if it is pending.
FetchRequest(h) ==
    /\ handlers[h].pc = "fetch"
    /\ handlers' =
          IF handlers[h].requestId \notin SignupIds THEN Respond(h, 404)
          ELSE IF signup_requests[handlers[h].requestId] # "pending"
          THEN Respond(h, 400)
          ELSE IF ~supabaseAdmin THEN Respond(h, 500)
          ELSE At(h, "invite")
    /\ UNCHANGED << signup_requests, authUsers, user_profiles, supabaseAdmin,
                    started, invitations, changedBy, outsideSignup >>

\* part_012:59-76: inviteUserByEmail.  The route does not look for an earlier
\* invitation itself; whether the auth service turns a second one down is the
\* service's answer createError (it does for an address whose user has
\* confirmed, and sends the invitation again for one who has not).
InviteUser(h, createError) ==
    /\ handlers[h].pc = "invite"
    /\ IF createError
       THEN /\ handlers' = Respond(h, 500)
            /\ UNCHANGED << authUsers, invitations, changedBy >>
       ELSE /\ authUsers' = authUsers \cup {handlers[h].requestId}
            /\ invitations' = [invitations EXCEPT ![handlers[h].requestId] = @ + 1]
            /\ changedBy' = changedBy \cup {handlers[h].adminToken}
            /\ handlers' = At(h, "update")
    /\ UNCHANGED << signup_requests, user_profiles, supabaseAdmin, started,
                    outsideSignup >>

\* part_012:154-160: reject writes its status over whatever the row holds.
StatusAfterReject(old) == "rejected"

\* part_012:79-92 (approve) and 154-169 (reject): the status of the row is
\* written; an update that matches no row is no error.
UpdateStatus(h, updateError) ==
    /\ handlers[h].pc = "update"
    /\ LET id == handlers[h].requestId
       IN  IF updateError
           THEN /\ handlers' = Respond(h, 500)
                /\ UNCHANGED << signup_requests, changedBy >>
           ELSE /\ changedBy' = IF id \in SignupIds
                                THEN changedBy \cup {handlers[h].adminToken}
                                ELSE changedBy
                /\ signup_requests' =
                      IF id \notin SignupIds THEN signup_requests
                      ELSE IF handlers[h].op = "approve"
                      THEN [signup_requests EXCEPT ![id] = "approved"]
                      ELSE [signup_requests EXCEPT ![id] = StatusAfterReject(@)]
                /\ handlers' = IF handlers[h].op = "approve" THEN At(h, "profile")
                               ELSE Respond(h, 200)
    /\ UNCHANGED << authUsers, user_profiles, supabaseAdmin, started, invitations,
                    outsideSignup >>

\* part_012:95-117: the profile row is inserted (an error is logged) and the
\* approval is answered.
CreateProfile(h, profileCreateError) ==
    /\ handlers[h].pc = "profile"
    /\ user_profiles' = IF profileCreateError THEN user_profiles
                        ELSE user_profiles \cup {handlers[h].requestId}
    /\ handlers' = Respond(h, 200)
    /\ UNCHANGED << signup_requests, authUsers, supabaseAdmin, started, invitations,
                    changedBy, outsideSignup >>

\* rejectUser.js:8-28: the handler of the frontend writes the status without
\* looking at the caller or at the row; the result of the update is not read.
rejectUser(requestId) ==
    /\ started < MaxCalls
    /\ started' = started + 1
    /\ signup_requests' =
          IF requestId \in SignupIds
          THEN [signup_requests EXCEPT ![requestId] = StatusAfterReject(@)]
          ELSE signup_requests
    /\ changedBy' = IF requestId \in SignupIds THEN changedBy \cup {"none"}
                    ELSE changedBy
    /\ UNCHANGED << authUsers, user_profiles, supabaseAdmin, handlers, invitations,
                    outsideSignup >>

\* part_002:14-93: the approveUser handler of the frontend.  It reads no
\* token; it creates the auth user, the profile and then writes the status,
\* and an error of createUser or of the profile insert is thrown to the catch
\* block, which undoes nothing.
approveUser(requestId, userError, profileError) ==
    /\ started < MaxCalls
    /\ started' = started + 1
    /\ IF requestId \notin SignupIds THEN
            UNCHANGED << signup_requests, authUsers, user_profiles, changedBy >>
       ELSE IF signup_requests[requestId] # "pending" \/ userError THEN
            UNCHANGED << signup_requests, authUsers, user_profiles, changedBy >>
       ELSE /\ authUsers' = authUsers \cup {requestId}
            /\ user_profiles' = IF profileError THEN user_profiles
                                ELSE user_profiles \cup {requestId}
            /\ signup_requests' = IF profileError THEN signup_requests
                                  ELSE [signup_requests EXCEPT ![requestId] = "approved"]
            /\ changedBy' = IF profileError THEN changedBy
                            ELSE changedBy \cup {"none"}
    /\ UNCHANGED << supabaseAdmin, handlers, invitations, outsideSignup >>

NextSignup ==
    \/ \E h \in Handlers, op \in {"approve", "reject"},
          requestId \in RequestIdsSent, adminToken \in AdminTokens :
            PostUsers(h, op, requestId, adminToken)
    \/ \E h \in Handlers : FetchRequest(h)
    \/ \E h \in Handlers, createError \in BOOLEAN : InviteUser(h, createError)
    \/ \E h \in Handlers, updateError \in BOOLEAN : UpdateStatus(h, updateError)
    \/ \E h \in Handlers, profileCreateError \in BOOLEAN :
            CreateProfile(h, profileCreateError)
    \/ \E requestId \in RequestIdsSent \ {"missing"} : rejectUser(requestId)
    \/ \E requestId \in RequestIdsSent \ {"missing"},
          userError \in BOOLEAN, profileError \in BOOLEAN :
            approveUser(requestId, userError, profileError)

SpecSignup == InitSignup /\ [][NextSignup]_vars

(* ------------------------------- claims -------------------------------- *)

Entries == response.recommendation.recommendations

Succeeded == pc = "done" /\ response.success

BuiltIn == {"default-on-error", "default-no-json"}

\* C1: a success response never carries a Recommendation with zero entries,
\* and a failure of a pathway ends in an explicit error, never in an empty or
\* built-in default Recommendation.
C1_SuccessNeverEmptyOrDefault ==
    pc = "done" =>
        IF response.success
        THEN /\ response.recommendation.hasRecommendations
             /\ Len(Entries) > 0
             /\ response.recommendation.summary \notin BuiltIn
        ELSE /\ response.error # ""
             /\ response.recommendation = NoRecommendation

\* C2: when the ML model is not loaded and the Ollama call fails too, the
\* request ends in one error response naming both causes and carrying no
\* Recommendation.
C2_BothFailuresReported ==
    (pc = "done" /\ healthReply = "model_not_loaded"
                 /\ llmReply \in {"network_error", "not_ok"}) =>
        /\ ~response.success
        /\ response.ml_error # ""
        /\ response.llm_error # ""
        /\ response.recommendation = NoRecommendation

\* C3: whenever getMLRecommendation fails (health check failed, model not
\* loaded, no bounds, no prediction, no suitable candidate) the generator is
\* called next, exactly once, and if it succeeds the row handed to the store,
\* every stored row and the response are tagged "llm-fallback".
C3_FallbackAfterClassifierFailure ==
    /\ (healthReply \notin {"none", "model_loaded"}) => mlError # ""
    /\ (healthReply = "model_loaded" /\ mlSeen.suitable = 0) => mlError # ""
    /\ mlError # "" =>
        /\ calls = [ml |-> 1, llm |-> 1]
        /\ pc \in {"llm", "storing", "done"}
        /\ (pc = "storing" \/ Succeeded) =>
              /\ recommendationMethod = "llm-fallback"
              /\ Len(inserted) = 1
              /\ inserted[1].recommendation_method = "llm-fallback"
              /\ \A n \in 1..Len(recommendations) :
                    recommendations[n].recommendation_method = "llm-fallback"
        /\ Succeeded => response.method = "llm-fallback"

C3_Witness ==
    /\ Succeeded
    /\ mlError = "No suitable locations found"
    /\ response.method = "llm-fallback"
    /\ Len(recommendations) = 1

\* C4: with the classifier pathway switched off (ML_ENABLED is not "true", or
\* USE_ML_FOR_RECOMMENDATIONS is "false") getMLRecommendation is never called,
\* the generator is called directly, and a success is tagged "llm".
C4_DisabledGoesStraightToGenerator ==
    (env.ML_ENABLED # "true" \/ env.USE_ML_FOR_RECOMMENDATIONS = "false") =>
        /\ calls.ml = 0
        /\ pc # "ml"
        /\ healthReply = "none"
        /\ mlError = ""
        /\ (pc = "storing" \/ Succeeded) =>
              /\ calls.llm = 1
              /\ recommendationMethod = "llm"
              /\ Len(inserted) = 1
              /\ inserted[1].recommendation_method = "llm"
        /\ Succeeded => response.method = "llm"

C4_Witness ==
    /\ Succeeded
    /\ env.ML_ENABLED = "true"
    /\ env.USE_ML_FOR_RECOMMENDATIONS = "false"
    /\ response.method = "llm"
    /\ Len(recommendations) = 1

\* The candidate of the request's grid an entry of the Recommendation sits on
\* (0 if on none).
GridIndex(e) ==
    LET grid == generateCandidateLocations(analysis.bounds, 20)
        on   == { k \in 1..Len(grid) :
                    grid[k].latitude = e.lat /\ grid[k].longitude = e.lon }
    IN  IF on = {} THEN 0 ELSE CHOOSE k \in on : TRUE

C6_GeneratorUnavailableIsTerminal ==
    (pc = "done" /\ llmReply \in {"network_error", "not_ok"}) =>
        /\ ~response.success
        /\ response.error # ""
        /\ inserted = << >>

\* Some slice of the text is a well-formed JSON object.
ObjectStarts(text) == { i \in 1..Len(text) : ObjectEnd(text, i) # 0 }

ContainsObject(text) == ObjectStarts(text) # {}

\* The well-formed JSON object of the text that starts first.
FirstObject(text) ==
    LET i == Min(ObjectStarts(text)) IN SubSeq(text, i, ObjectEnd(text, i))

\* C7: if the reply text contains no JSON object, getRecommendation fails
\* (UnparsableResponse) and returns no Recommendation.
C7_NoJsonIsUnparsable ==
    (pc = "extracted" /\ ~ContainsObject(jsonStr)) =>
        /\ ~extracted.ok
        /\ extracted.value = NoRecommendation

\* C8: if the reply text contains a well-formed JSON object, whatever prose
\* (braces, a second object) surrounds it, getRecommendation returns the
\* first well-formed object, parsed.
C8_FirstObjectExtracted ==
    (pc = "extracted" /\ ContainsObject(jsonStr)) =>
        /\ extracted.ok
        /\ extracted.value = JSONParse(FirstObject(jsonStr)).value

InBox(e, bounds) ==
    /\ bounds.minLat <= e.lat /\ e.lat <= bounds.maxLat
    /\ bounds.minLon <= e.lon /\ e.lon <= bounds.maxLon

\* C9: every site of a successful generator result lies within the bounding
\* box of the request.
C9_GeneratorSitesInBox ==
    (Succeeded /\ response.method \in {"llm", "llm-fallback"}) =>
        \A n \in 1..Len(Entries) : InBox(Entries[n], analysis.bounds)

\* C10: a Recommendation returned on success has at most 3 entries, and a
\* generator result has exactly 3 unless the backend itself returned fewer.
C10_AtMostThreeEntries ==
    Succeeded =>
        /\ Len(Entries) <= 3
        /\ response.method # "ml" =>
              \/ Len(Entries) = 3
              \/ response.recommendation.summary = "generated"

\* C11: whatever predictions selectTopLocations is given, its output is in
\* descending order of probability, every element of it has prediction 1 and
\* a probability strictly above 0.6, and nothing at or below 0.6 is returned.
C11_TopLocationsSortedAndSuitable ==
    pc = "selected" =>
        LET top == topLocations.value
        IN  /\ \A n \in 1..Len(top) :
                  /\ top[n].prediction = 1
                  /\ top[n].probability > 6000
            /\ \A n, m \in 1..Len(top) :
                  n < m => top[n].probability >= top[m].probability

C11_Witness ==
    /\ pc = "selected"
    /\ topLocations.ok
    /\ Len(topLocations.value) = 3
    /\ topLocations.value[1].probability > topLocations.value[3].probability
    /\ \E n \in 1..Len(predictions) :
          predictions[n].prediction = 1 /\ predictions[n].probability = 6000
    /\ \E n \in 1..Len(predictions) :
          predictions[n].prediction = 0 /\ predictions[n].probability > 6000

\* C12: when every candidate has been processed and none of the predictions
\* passes the suitability filter, selectTopLocations fails with the "no
\* suitable locations" error; it never returns an empty list as a success.
C12_NoSuitableIsFailure ==
    pc = "selected" =>
        /\ (\A n \in 1..Len(predictions) :
                ~(predictions[n].prediction = 1 /\ predictions[n].probability > 6000))
             => /\ ~topLocations.ok
                /\ topLocations.error = "No suitable locations found"
                /\ topLocations.value = << >>
        /\ topLocations.ok => Len(topLocations.value) >= 1

C12_Witness ==
    /\ pc = "selected"
    /\ Len(predictions) = 25
    /\ \E n \in 1..25 : predictions[n].probability = 6000
    /\ \E n \in 1..25 : predictions[n].prediction = 0
    /\ ~topLocations.ok
    /\ topLocations.error = "No suitable locations found"

ValidBounds(bounds) == bounds.minLat < bounds.maxLat /\ bounds.minLon < bounds.maxLon

\* C13: for bounds with min < max on both axes and a positive count,
\* generateCandidateLocations returns between ceil(sqrt(count)) and
\* ceil(sqrt(count))^2 candidates, each strictly inside the bounds on both
\* axes, none on the boundary.
C13_GridInsideBounds ==
    (pc = "generated" /\ ValidBounds(analysis.bounds) /\ candidateCount > 0) =>
        LET g   == CeilSqrt(candidateCount)
            out == candidates.value
        IN  /\ candidates.ok
            /\ g <= Len(out) /\ Len(out) <= g * g
            /\ \A n \in 1..Len(out) :
                  /\ analysis.bounds.minLat < out[n].latitude
                  /\ out[n].latitude < analysis.bounds.maxLat
                  /\ analysis.bounds.minLon < out[n].longitude
                  /\ out[n].longitude < analysis.bounds.maxLon

C13_Witness ==
    /\ pc = "generated"
    /\ analysis.bounds = Box(-60, 60, -120, 0)
    /\ candidateCount = 10
    /\ Len(candidates.value) = 16
    /\ candidates.value[1] = [latitude |-> -36, longitude |-> -96]
    /\ candidates.value[16] = [latitude |-> 36, longitude |-> -24]

\* C14: generateCandidateLocations fails with InvalidBounds when min >= max
\* on either axis and with InvalidCount when count <= 0, and returns no
\* candidate list in either case.
C14_InvalidInputsFail ==
    pc = "generated" =>
        /\ ~ValidBounds(analysis.bounds) =>
              /\ ~candidates.ok
              /\ candidates.error = "InvalidBounds"
        /\ (ValidBounds(analysis.bounds) /\ candidateCount <= 0) =>
              /\ ~candidates.ok
              /\ candidates.error = "InvalidCount"

\* C15: every success of a recommend request has handed one row to the
\* recommendations table, holding the Recommendation, the analysis input and
\* the pathway tag of the response; and once the row has been handed over the
\* request ends in that success whether or not the insert failed.
C15_PersistenceFailureOnlyLogged ==
    /\ Succeeded =>
          /\ Len(inserted) = 1
          /\ inserted[1] = [district_id           |-> analysis.districtId,
                            analysis_input        |-> analysis,
                            recommendation_output |-> response.recommendation,
                            recommendation_method |-> response.method]
    /\ (pc = "done" /\ inserted # << >>) =>
          /\ response.success
          /\ response.status = 200
          /\ response.recommendation = inserted[1].recommendation_output
          /\ Len(recommendations) <= 1

C15_Witness ==
    /\ pc = "done"
    /\ Len(inserted) = 1
    /\ recommendations = << >>
    /\ response.success
    /\ response.method = "ml"
    /\ Len(Entries) = 3

\* C17: every Recommendation of a success response, whatever pathway made
\* it, has its recommendations list and each entry of it carries lat, lon,
\* type, justification and estimated_impact.
C17_FullyShaped ==
    Succeeded =>
        /\ response.recommendation.hasRecommendations
        /\ \A n \in 1..Len(Entries) :
              {"lat", "lon", "type", "justification", "estimated_impact"}
                  \subseteq Entries[n].fields

\* Location a is generated before location b: the grid is filled row by
\* row, latitude in the outer loop and longitude in the inner one, both
\* growing (llm.js:182-189, the box of the request has min < max).
GeneratedBefore(a, b) ==
    \/ a.latitude < b.latitude
    \/ a.latitude = b.latitude /\ a.longitude < b.longitude

Same(a, b) == a.latitude = b.latitude /\ a.longitude = b.longitude

\* C20: predictions keep the order the candidates were generated in, and
\* among suitable candidates of equal probability selectTopLocations ranks
\* the one generated first before the others and, at the cut to the top 3,
\* keeps the one generated first.
C20_TiesKeepGenerationOrder ==
    (pc \in {"select", "selected"}) =>
        LET top == topLocations.value
        IN  /\ \A n, m \in 1..Len(predictions) :
                  n < m => GeneratedBefore(predictions[n], predictions[m])
            /\ \A n, m \in 1..Len(top) :
                  (n < m /\ top[n].probability = top[m].probability)
                      => GeneratedBefore(top[n], top[m])
            /\ pc = "selected" =>
                  \A k \in 1..Len(predictions) :
                      ( /\ predictions[k].prediction = 1
                        /\ predictions[k].probability > 6000
                        /\ \A n \in 1..Len(top) : ~Same(top[n], predictions[k]) )
                      => \A n \in 1..Len(top) :
                            predictions[k].probability = top[n].probability
                                => GeneratedBefore(top[n], predictions[k])

C20_Witness ==
    /\ pc = "selected"
    /\ Len(topLocations.value) = 3
    /\ topLocations.value[1].probability > topLocations.value[2].probability
    /\ topLocations.value[2].probability = topLocations.value[3].probability
    /\ \E k \in 1..Len(predictions) :
          /\ predictions[k].suitable
          /\ predictions[k].probability = topLocations.value[3].probability
          /\ GeneratedBefore(topLocations.value[3], predictions[k])

\* The value is not an array of exactly 12 items.
WrongDimension(f) == f.kind # "array" \/ Len(f.value) # 12

\* C18 as stated: every features value that is not an array of exactly 12
\* items makes POST /api/ml/predict fail with the dimension error, without a
\* prediction and without anything being sent to the ML service.
C18_WrongDimensionIsDimensionError ==
    (pc # "predict" /\ WrongDimension(features)) =>
        /\ pc = "answered"
        /\ predictResponse.status = 400
        /\ predictResponse.error = "Provide 'features' array with exactly 12 values"
        /\ predictResponse.data = "none"
        /\ forwarded = << >>

\* C18, amended: a features value that is not an array of exactly 12 items
\* is never sent to the ML service and never answered with a prediction; the
\* request fails with the dimension error when ML_ENABLED is "true" and with
\* the "not enabled" error otherwise.  Whatever is sent to the ML service is
\* the vector received, of 12 items, unchanged.
C18_WrongDimensionNeverForwarded ==
    /\ (pc # "predict" /\ WrongDimension(features)) =>
          /\ pc = "answered"
          /\ predictResponse.data = "none"
          /\ forwarded = << >>
          /\ IF env.ML_ENABLED = "true"
             THEN /\ predictResponse.status = 400
                  /\ predictResponse.error =
                        "Provide 'features' array with exactly 12 values"
             ELSE /\ predictResponse.status = 503
                  /\ predictResponse.error = "ML service is not enabled"
    /\ \A n \in 1..Len(forwarded) :
          forwarded[n] = features.value /\ Len(forwarded[n]) = 12

C18_Witness ==
    /\ pc = "answered"
    /\ env.ML_ENABLED = "true"
    /\ features.kind = "array"
    /\ Len(features.value) = 13
    /\ predictResponse.status = 400
    /\ forwarded = << >>

\* C19: in every state of the signup workflow, whatever approve and reject
\* calls were made, a signup request whose status is rejected has no user
\* account: no auth user was invited for it and no profile was created.
C19_RejectedHasNoAccount ==
    \A id \in SignupIds :
        signup_requests[id] = "rejected" =>
            id \notin authUsers /\ id \notin user_profiles

\* C21: a candidate whose prediction call fails is skipped and the candidates
\* after it are still processed: predictions holds exactly the candidates the
\* ML service answered, each with the answer given for it, in the order the
\* candidates were generated.
C21_FailedCandidatesAreSkipped ==
    (pc \in {"select", "selected", "no predictions"}) =>
        LET answeredAt == { k \in 1..25 : AnswerFor(mlWorld, k).ok }
        IN  /\ Len(predictions) = Cardinality(answeredAt)
            /\ \A k \in answeredAt :
                  LET n == Cardinality({ j \in answeredAt : j <= k })
                      i == ((k - 1) \div 5) + 1
                      j == ((k - 1) % 5) + 1
                  IN  /\ predictions[n].latitude = analysis.bounds.minLat + i * 10
                      /\ predictions[n].longitude = analysis.bounds.minLon + j * 10
                      /\ predictions[n].prediction = AnswerFor(mlWorld, k).prediction
                      /\ predictions[n].probability = AnswerFor(mlWorld, k).probability

C21_Witness ==
    /\ pc = "selected"
    /\ ~AnswerFor(mlWorld, 1).ok
    /\ AnswerFor(mlWorld, 2).ok
    /\ ~AnswerFor(mlWorld, 3).ok
    /\ AnswerFor(mlWorld, 25).ok
    /\ Len(predictions) > 20
    /\ predictions[1].latitude = -590 /\ predictions[1].longitude = 9020

(* ------------------------------ C22, C23 ------------------------------- *)

\* C22: once a recommendation has been produced and handed to persistence,
\* the success response is eventually delivered, whether or not the insert
\* ever completes.
C22_ResponseNotHeldByPersistence ==
    (pc = "storing") ~> (pc = "done" /\ response.success)

\* C23: every external call (health check, per-candidate prediction,
\* generator) is bounded by a timeout, so a request waiting on a pathway
\* eventually leaves it, with a result or with an error.
C23_EveryPathwaySettles ==
    (pc \in {"ml", "llm"}) ~> (pc \in {"storing", "done"})

(* --------------------------------- C24 --------------------------------- *)

\* C24: a body without analysis, or with a districtId that is missing or not
\* a UUID, is answered 400 before any pathway: neither getMLRecommendation nor
\* getRecommendation is called, no row is handed to the store and none stored.
C24_InvalidBodyRejectedBeforeAnyPathway ==
    (pc # "idle" /\ (~analysis.present \/ analysis.districtId # "uuid")) =>
        /\ pc = "done"
        /\ response.status = 400
        /\ ~response.success
        /\ calls = [ml |-> 0, llm |-> 0]
        /\ healthReply = "none" /\ llmReply = "none"
        /\ inserted = << >> /\ recommendations = << >>

C24_Witness ==
    /\ pc = "done"
    /\ analysis.present /\ analysis.districtId = "not-a-uuid"
    /\ analysis.hasBounds /\ analysis.hasPopulation
    /\ ClassifierEnabled
    /\ response.status = 400 /\ response.error = "Invalid district ID"

(* --------------------------------- C25 --------------------------------- *)

\* C25: the availability check precedes scoring.  When the health check fails
\* or reports model_loaded false, getMLRecommendation fails there with an
\* availability error: no candidate has been generated, no
\* predict-from-location call was issued, nothing is scored or selected; and
\* candidates are generated only after a health check that passed.
C25_AvailabilityCheckedFirst ==
    /\ (healthReply \notin {"none", "model_loaded"}) =>
          /\ pc = "unavailable"
          /\ mlError \in
                { "ML service unavailable: ML service health check failed",
                  "ML service unavailable: ML model not loaded",
                  "ML service unavailable: invalid json response body",
                  "ML service unavailable: request failed" }
          /\ candidates = NotGenerated
          /\ predictions = << >>
          /\ topLocations = NotSelected
    /\ (candidates # NotGenerated \/ predictions # << >>) =>
          healthReply = "model_loaded"

C25_Witness ==
    /\ pc = "unavailable"
    /\ healthReply = "model_not_loaded"
    /\ mlError = "ML service unavailable: ML model not loaded"
    /\ \A k \in 1..HotSpan : AnswerFor(mlWorld, k) = PredictAnswer(1, 9000, "high")
    /\ candidates = NotGenerated

(* --------------------------------- C26 --------------------------------- *)

\* An entry as formatMLRecommendations builds it (llm.js:273-283), and one as
\* getRecommendation returns it (llm.js:27-34, 94-121).
ClassifierEntry(e) == "ml_probability" \in e.fields /\ e.ml_probability >= 0

GeneratorEntry(e) == "ml_probability" \notin e.fields /\ e.ml_probability = -1

\* C26: the generator is invoked at most once per request and never after
\* getMLRecommendation succeeded, and a response never mixes the pathways: one
\* tagged "ml" holds only classifier entries and comes from a request that did
\* not call the generator, one tagged "llm" or "llm-fallback" holds only
\* generator entries.
C26_PathwaysNeverMixed ==
    /\ calls.ml <= 1 /\ calls.llm <= 1
    /\ (calls.ml = 1 /\ pc # "ml" /\ mlError = "") =>
          /\ calls.llm = 0
          /\ llmReply = "none"
          /\ recommendationMethod = "ml"
    /\ Succeeded =>
          /\ response.method = "ml" =>
                /\ calls = [ml |-> 1, llm |-> 0]
                /\ \A n \in 1..Len(Entries) : ClassifierEntry(Entries[n])
          /\ response.method \in {"llm", "llm-fallback"} =>
                /\ calls.llm = 1
                /\ \A n \in 1..Len(Entries) : GeneratorEntry(Entries[n])

C26_Witness ==
    /\ Succeeded
    /\ response.method = "ml"
    /\ Len(Entries) = 3
    /\ calls = [ml |-> 1, llm |-> 0]
    /\ llmReply = "none"

(* --------------------------------- C27 --------------------------------- *)

\* C27: the tag of every row handed to the store is one of "ml", "llm",
\* "llm-fallback" and equals the method returned in the response; a request
\* that succeeds attempts exactly one insert, and a request that fails (400,
\* 500, 503) attempts none.
C27_OneTaggedInsertPerSuccess ==
    /\ \A n \in 1..Len(inserted) :
          inserted[n].recommendation_method \in {"ml", "llm", "llm-fallback"}
    /\ \A n \in 1..Len(recommendations) :
          /\ n = 1
          /\ recommendations[n] = inserted[1]
    /\ Succeeded =>
          /\ Len(inserted) = 1
          /\ inserted[1].recommendation_method = response.method
          /\ inserted[1].recommendation_output = response.recommendation
          /\ inserted[1].district_id = analysis.districtId
    /\ (pc = "done" /\ ~response.success) =>
          /\ response.status \in {400, 500, 503}
          /\ inserted = << >>
          /\ recommendations = << >>

C27_Witness ==
    /\ Succeeded
    /\ Len(recommendations) = 1
    /\ recommendations[1].recommendation_method = "ml"
    /\ response.method = "ml"
    /\ mlSeen.suitable = 1

(* --------------------------------- C28 --------------------------------- *)

\* C28: under any interleaving of /approve calls a signup request's address
\* gets at most one invitation.
C28_AtMostOneInvitation ==
    \A id \in SignupIds : invitations[id] <= 1

(* --------------------------------- C29 --------------------------------- *)

\* No call of the users router is between its steps.
Quiescent == \A h \in Handlers : handlers[h].pc \in {"idle", "answered"}

\* C29: once an approve call for a request has completed (no other call is
\* under way, the request was not rejected, and nothing but calls of the
\* users router by an admin has written to it), the request's address has an
\* invitation exactly if its status is approved: a failed invitation leaves
\* it pending and uninvited, and a failed status update leaves no invitation
\* behind for a request that is still pending.
C29_InvitedIffApproved ==
    \A h \in Handlers :
        LET id == handlers[h].requestId
        IN  ( /\ Quiescent
              /\ changedBy \subseteq {"admin"}
              /\ handlers[h].op = "approve"
              /\ handlers[h].pc = "answered"
              /\ id \in SignupIds
              /\ signup_requests[id] # "rejected" ) =>
                 (invitations[id] > 0 <=> signup_requests[id] = "approved")

(* --------------------------------- C30 --------------------------------- *)

\* C30: a status is written and an invitation is sent only on behalf of a
\* caller whose token resolves to a user with is_admin; a call with a missing
\* or invalid token, or the token of a user who is no admin, changes nothing.
C30_OnlyAdminsChange ==
    changedBy \subseteq {"admin"}

====
